---- MODULE Spec2Model ----
(***************************************************************************)
(* Box3 workflow automation webhook server.                                *)
(*                                                                         *)
(* The repository holds two variants of the server:                        *)
(*   src/unnamed/part_002      (1382 lines: delayed upload request, tags,  *)
(*                              timeline line items, custom fields)        *)
(*   src/src/webhook-server.js (964 lines: notes instead of line items)    *)
(* Both are modelled; request.variant says which one serves a request.     *)
(*                                                                         *)
(* A handler is an async function: it runs synchronously up to its next    *)
(* `await`, where the gateway call is in flight, and resumes when the call *)
(* returns or throws.  One action of the model is one such synchronous     *)
(* stretch: the resumption after a call together with the issue of the     *)
(* next call.  The effect of a helpdesk call on the stored tags is taken   *)
(* at the moment the call returns.                                         *)
(***************************************************************************)
EXTENDS Integers, Sequences, FiniteSets, TLC

VARIABLES
    tags,       \* helpdesk: tag names stored for the conversation (array)
    tags0,      \* history: the tags stored before the server acted
    tagsAdded,  \* history: tags whose updateConversationTags call returned
    config,     \* CONFIG (part_002:32-39): which optional keys are set
    pc,         \* per request: the await the handler is suspended at
    request,    \* per request: req.headers / req.body / serving variant
    locals,     \* per request: local variables of the running handler
    calls,      \* per request: gateway calls issued, in issue order
    results,    \* per request: outcome of the returned calls, in order
    responses,  \* per request: responses written to res, in order
    silent,     \* environment: the gateways that never answer a request
    script      \* the run of a deployment script (scripts/*.js), if any

vars == <<tags, tags0, tagsAdded, config, pc, request, locals, calls,
          results, responses, silent, script>>

(***************************************************************************)
(* Bounds                                                                  *)
(***************************************************************************)
MaxRequests == 2
MaxThreads == 2

Requests == 1..MaxRequests

(***************************************************************************)
(* Names used by the servers                                               *)
(***************************************************************************)
VariantFull == "part_002"
VariantSrc == "src/webhook-server.js"
Variants == {VariantFull, VariantSrc}

WelcomeEvent == "workflow.convo.box3.welcome.generate"
IntentEvent == "workflow.convo.box3.intent.detect"
DraftEvent == "workflow.convo.box3.draft.generate"
RegisteredEvents == {WelcomeEvent, IntentEvent, DraftEvent}
UnknownEventName == "foo.bar"

\* "" stands for an absent header / body field (falsy in `a || b`, `!a`)
HeaderEvents == RegisteredEvents \cup {UnknownEventName, ""}
BodyEvents == {IntentEvent, ""}

\* 0 stands for an absent id (`!conversationId` is true for it)
ConversationIds == {0, 42}

\* JavaScript values a JSON payload can carry in user_id: a number, a string
\* (Str(n) is the decimal numeral of n) or nothing
Undefined == [t |-> "undefined", v |-> 0]
Num(n) == [t |-> "number", v |-> n]
Str(n) == [t |-> "string", v |-> n]

\* `x || ...` takes x unless it is undefined, 0 or the empty string
Truthy(x) == x.t = "string" \/ (x.t = "number" /\ x.v # 0)

\* x === n for a number literal n: same type and same value
StrictEquals(x, n) == x.t = "number" /\ x.v = n

IntakeAgentId == 22
QuoteAgentId == 23
PaymentAgentId == 26
GeneralAgent == "General Agent"

\* AGENTS[assignedUserId]: the key of a property access is converted to a
\* string, so the number 22 and the string '22' name the same property
AgentName(assignedUserId) ==
    IF assignedUserId.t = "undefined" THEN GeneralAgent
    ELSE CASE assignedUserId.v = IntakeAgentId -> "Intake Agent"
           [] assignedUserId.v = QuoteAgentId -> "Quote Agent"
           [] assignedUserId.v = PaymentAgentId -> "Payment Agent"
           [] OTHER -> GeneralAgent

SystemUserId == 1

UserIds == {Undefined, Num(IntakeAgentId), Str(IntakeAgentId),
            Num(QuoteAgentId)}

ThreadTypes == {"customer", "message", "note"}
\* creation times: as many as there are thread entries, so that every order
\* and every tie among them occurs
Times == 1..MaxThreads
Bodies == <<"body1", "body2", "body3", "body4">>
PlaceholderMessage == "New lead imported. Customer has not sent a message yet."
WelcomeText == "welcomeEmailBody"
DraftText == "draftReply"
IntentOutputs == {"Question", "Unlisted_Label"}

\* the intents named in the system prompt of detectIntentWithOpenAI
IntentLabels ==
    {"Nieuwe_Aanvraag", "Klant_Wil_Doorgaan", "Klant_Weigert",
     "Payment_Confirmed", "DOCS_RECEIVED", "Proposal_Accepted",
     "QUESTIONS_ANSWERED", "Additional_Info", "CLOSED_LOST", "Question"}

\* response.data.choices[0].message.content: what the completion answers,
\* held as the sequence of its pieces: white-space characters around one
\* piece of text
IntentContents == {<<"Question", "\n">>, <<" ", "Unlisted_Label">>}
DocsRequested == "DOCS_REQUESTED"

(***************************************************************************)
(* Pure helpers                                                            *)
(***************************************************************************)
Range(s) == {s[i] : i \in DOMAIN s}

SeqsUpTo(S, n) == UNION {[1..k -> S] : k \in 0..n}

NoDuplicates(s) == \A i, j \in DOMAIN s : i # j => s[i] # s[j]

\* [...new Set(s)]: the elements of s in first-occurrence order, each once
RECURSIVE Dedup(_)
Dedup(s) ==
    IF s = <<>> THEN <<>>
    ELSE LET init == Dedup(SubSeq(s, 1, Len(s) - 1))
             last == s[Len(s)]
         IN  IF last \in Range(init) THEN init ELSE Append(init, last)

\* a mutation of MergeTags: the arrays are concatenated without the Set
MergeTags_NoSet(existingTags, newTags) == existingTags \o newTags

\* const allTags = [...new Set([...existingTags, ...newTags])]
MergeTags(existingTags, newTags) == Dedup(existingTags \o newTags)

\* Array.prototype.sort is stable: insertion of x after every element that
\* does not compare greater than it.  before(a, b) == comparator(a, b) < 0
RECURSIVE InsertSorted(_, _, _)
InsertSorted(x, s, desc) ==
    IF s = <<>> THEN <<x>>
    ELSE LET xBeforeHead == IF desc THEN x.createdAt > s[1].createdAt
                                    ELSE x.createdAt < s[1].createdAt
         IN  IF xBeforeHead THEN <<x>> \o s
             ELSE <<s[1]>> \o InsertSorted(x, Tail(s), desc)

RECURSIVE SortByCreatedAt(_, _)
SortByCreatedAt(s, desc) ==
    IF s = <<>> THEN <<>>
    ELSE InsertSorted(s[Len(s)],
                      SortByCreatedAt(SubSeq(s, 1, Len(s) - 1), desc), desc)

\* t => t.type === 'customer' || t.type === 'message'
IsCustomerOrMessage(t) == t.type = "customer" \/ t.type = "message"

\* threads.filter(...).sort((a, b) => new Date(a.createdAt) - new Date(b.createdAt))
CustomerThreadsAsc(threads) ==
    SortByCreatedAt(SelectSeq(threads, IsCustomerOrMessage), FALSE)

\* threads.filter(...).sort((a, b) => new Date(b.createdAt) - new Date(a.createdAt))
CustomerThreadsDesc(threads) ==
    SortByCreatedAt(SelectSeq(threads, IsCustomerOrMessage), TRUE)

\* t => t.type === 'customer' || t.type === 'message' || t.type === 'reply'
IsConversationThread(t) == t.type \in {"customer", "message", "reply"}

\* t => `[${t.type === 'customer' ? 'Customer' : 'Agent'}]: ${t.body}`
HistoryLine(t) ==
    [sender |-> IF t.type = "customer" THEN "Customer" ELSE "Agent",
     body |-> t.body]

\* a mutation of ConversationHistory: the entries are not sorted
ConversationHistory_Unsorted(threads) ==
    LET kept == SelectSeq(threads, IsConversationThread)
    IN  [i \in DOMAIN kept |-> HistoryLine(kept[i])]

\* threads.filter(...).sort(by createdAt ascending).map(...).join('\n\n'):
\* the transcript as the sequence of its lines
ConversationHistory(threads) ==
    LET sorted == SortByCreatedAt(SelectSeq(threads, IsConversationThread),
                                  FALSE)
    IN  [i \in DOMAIN sorted |-> HistoryLine(sorted[i])]

\* a mutation of MissingId: the check is dropped
MissingId_Never(id) == FALSE

\* if (!conversationId)
MissingId(id) == id = 0

(***************************************************************************)
(* formatCustomFieldsForPrompt (part_002:151-174).  A field is             *)
(* {id, name, value}; a value is a string, held as the sequence of its     *)
(* characters.  The block is held as the sequence of its lines, the empty  *)
(* string as the empty sequence.                                           *)
(***************************************************************************)
FormId == 9
ActiveStep == 10
RestoreLink == 27
SavingsValue == 13

\* const excludedFieldIds = [FORM_ID, ACTIVE_STEP, RESTORE_LINK]
ExcludedFieldIds == {FormId, ActiveStep, RestoreLink}

WhiteSpace == {" ", "\n"}

\* String.prototype.trim: white space is removed from both ends
RECURSIVE TrimStart(_)
TrimStart(v) ==
    IF v # <<>> /\ v[1] \in WhiteSpace THEN TrimStart(Tail(v)) ELSE v

RECURSIVE TrimEnd(_)
TrimEnd(v) ==
    IF v # <<>> /\ v[Len(v)] \in WhiteSpace
    THEN TrimEnd(SubSeq(v, 1, Len(v) - 1))
    ELSE v

Trim(v) == TrimEnd(TrimStart(v))

\* field => field.value && field.value.trim() !== ''
HasValue(field) == field.value # <<>> /\ Trim(field.value) # <<>>

\* field => !excludedFieldIds.includes(field.id)
NotExcluded(field) == field.id \notin ExcludedFieldIds

\* field => `- ${field.name}: ${field.value}`
FieldLine(field) == [name |-> field.name, value |-> field.value]

BlockHeader == "=== CUSTOMER DATA (Custom Fields) ==="
BlockFooter == "=== END OF CUSTOMER DATA ==="

\* a mutation of FormatCustomFieldsForPrompt: the filter on the excluded
\* ids is missing
FormatCustomFieldsForPrompt_NoExclusion(conversation) ==
    IF Len(conversation.customFields) = 0 THEN <<>>
    ELSE LET kept == SelectSeq(conversation.customFields, HasValue)
             nonEmptyFields == [i \in DOMAIN kept |-> FieldLine(kept[i])]
         IN  IF Len(nonEmptyFields) = 0 THEN <<>>
             ELSE <<BlockHeader>> \o nonEmptyFields \o <<BlockFooter>>

FormatCustomFieldsForPrompt(conversation) ==
    IF Len(conversation.customFields) = 0 THEN <<>>
    ELSE LET kept == SelectSeq(SelectSeq(conversation.customFields, HasValue),
                               NotExcluded)
             nonEmptyFields == [i \in DOMAIN kept |-> FieldLine(kept[i])]
         IN  IF Len(nonEmptyFields) = 0 THEN <<>>
             ELSE <<BlockHeader>> \o nonEmptyFields \o <<BlockFooter>>

(***************************************************************************)
(* Inputs                                                                  *)
(***************************************************************************)
\* req.body.conversation: the nested object of the documented payload
\* format; id 0 stands for a body without it
NoConversation == [id |-> 0]

ThreadLists ==
    UNION {{[i \in 1..n |-> [type |-> f[i][1], createdAt |-> f[i][2],
                             body |-> Bodies[i]]] :
               f \in [1..n -> ThreadTypes \X Times]} :
           n \in 0..MaxThreads}

Payloads ==
    [variant : Variants, header : HeaderEvents, event : BodyEvents,
     id : ConversationIds, user_id : UserIds, threads : ThreadLists,
     customFields : {<<>>},
     conversation : {NoConversation}]

NoRequest ==
    [variant |-> VariantFull, header |-> "", event |-> "", id |-> 0,
     user_id |-> Undefined, threads |-> <<>>, customFields |-> <<>>,
     conversation |-> NoConversation]

NoLocals ==
    [handler |-> "none", text |-> "", newTags |-> <<>>,
     existingTags |-> <<>>, allTags |-> <<>>, conversationHistory |-> <<>>,
     customFieldsContext |-> <<>>, content |-> <<>>]

\* what the helpdesk may hold for the conversation before the server acts
InitialTags ==
    {<<>>, <<DocsRequested>>, <<"Question">>, <<"Question", DocsRequested>>}

(***************************************************************************)
(* Initial state: the server is listening, no request has arrived          *)
(***************************************************************************)
\* no deployment script is running
NoScript == [program |-> "none"]

Listening ==
    /\ tags \in InitialTags
    /\ tags0 = tags
    /\ tagsAdded = {}
    /\ config \in [onyxAiApiKey : BOOLEAN]
    /\ pc = [r \in Requests |-> "idle"]
    /\ request = [r \in Requests |-> NoRequest]
    /\ locals = [r \in Requests |-> NoLocals]
    /\ calls = [r \in Requests |-> <<>>]
    /\ results = [r \in Requests |-> <<>>]
    /\ responses = [r \in Requests |-> <<>>]
    /\ script = NoScript

\* every gateway answers each request, with a result or with an error
Init == Listening /\ silent = {}

(***************************************************************************)
(* Gateways and the time limit of a call.  A request sent with axios has   *)
(* no time limit unless the `timeout` option is given (axios default 0);   *)
(* with the option axios rejects the call once the time has passed.        *)
(***************************************************************************)
Gateways == {"freescout", "openai", "onyx"}

GatewayOf(kind) ==
    CASE kind \in {"generateWelcomeEmail", "detectIntentWithOpenAI",
                   "generateDraftReply"} -> "openai"
      [] kind = "queryOnyxAI" -> "onyx"
      [] OTHER -> "freescout"

OnyxTimeoutMs == 10000

\* the `timeout` option of the axios call made by each function; 0 = none
TimeoutMs(kind) == IF kind = "queryOnyxAI" THEN OnyxTimeoutMs ELSE 0

\* the call request r is awaiting
Awaited(r) == calls[r][Len(calls[r])]

\* the awaited call can end with outcome ok: its gateway answers, or the
\* time limit of the call passes and axios throws
CanReturn(r, ok) ==
    IF silent = {} THEN TRUE
    ELSE IF GatewayOf(Awaited(r).kind) \notin silent THEN TRUE
    ELSE TimeoutMs(Awaited(r).kind) > 0 /\ ~ok

(***************************************************************************)
(* Building blocks of the actions                                          *)
(***************************************************************************)
\* the awaited call of request r has returned (ok) or thrown (~ok)
Returned(r, ok) ==
    /\ CanReturn(r, ok)
    /\ results' = [results EXCEPT ![r] = Append(@, ok)]

\* axios.get / axios.post / axios.put is called: the request is in flight
Issue(r, kind, arg) ==
    calls' = [calls EXCEPT ![r] = Append(@, [kind |-> kind, arg |-> arg])]

\* res.status(code).json({...})
Respond(r, code, status, message, keys) ==
    responses' = [responses EXCEPT ![r] =
        Append(@, [code |-> code, status |-> status, message |-> message,
                   keys |-> keys, upload_request_delay |-> ""])]

Goto(r, label) == pc' = [pc EXCEPT ![r] = label]

\* calculateScheduledDateTime(delayValue, delayUnit), in milliseconds after
\* `now`, the instant of the call
CalculateScheduledDateTime(now, delayValue, delayUnit) ==
    now + CASE delayUnit = "minutes" -> delayValue * 60 * 1000
            [] delayUnit = "hours" -> delayValue * 60 * 60 * 1000
            [] delayUnit = "days" -> delayValue * 24 * 60 * 60 * 1000
            [] OTHER -> 0

\* the delay handleWelcomeGenerate passes to sendDelayedEmailToCustomer
UploadRequestDelayValue == 30

\* sendDelayedEmailToCustomer(conversationId, subject, body, delayValue,
\* delayUnit): the request it posts; scheduledAt counts from the call
SendDelayedEmailToCustomer(body, delayValue, delayUnit) ==
    [kind |-> "sendDelayedEmailToCustomer", arg |-> <<body>>,
     scheduledAt |-> CalculateScheduledDateTime(0, delayValue, delayUnit)]

\* await sendDelayedEmailToCustomer(..., 30, 'minutes') is called
IssueDelayed(r) ==
    calls' = [calls EXCEPT ![r] =
        Append(@, SendDelayedEmailToCustomer("uploadRequestBody",
                      UploadRequestDelayValue, "minutes"))]

\* a mutation of Catch: the handler's catch answers and rethrows, so that the
\* catch of the router answers a second time
Catch_Rethrow(r) ==
    /\ responses' = [responses EXCEPT ![r] =
         @ \o << [code |-> 500, status |-> "error",
                  message |-> "error.message", keys |-> {"status", "message"},
                  upload_request_delay |-> ""],
                 [code |-> 500, status |-> "error",
                  message |-> "error.message", keys |-> {"status", "message"},
                  upload_request_delay |-> ""] >>]
    /\ Goto(r, "done")
    /\ UNCHANGED calls

\* catch (error) { res.status(500).json({status: 'error', message}) }
\* of the handler the failed call was awaited in
Catch(r) ==
    /\ Respond(r, 500, "error", "error.message", {"status", "message"})
    /\ Goto(r, "done")
    /\ UNCHANGED calls

\* return res.status(400).json({status: 'error', message: ...})
Reject(r, message, keys) ==
    /\ Respond(r, 400, "error", message, keys)
    /\ Goto(r, "done")
    /\ UNCHANGED <<calls, locals>>

InFlight(r) == Len(calls[r]) - Len(results[r])

(***************************************************************************)
(* A request arrives at POST /webhook/event.  Under Spec the server is     *)
(* given one request at a time; request slots are interchangeable and the  *)
(* lowest free one is taken.                                               *)
(***************************************************************************)
Receive(r) ==
    /\ \A q \in Requests : pc[q] = "idle"
    /\ \A q \in Requests : q >= r
    /\ \E p \in Payloads : request' = [request EXCEPT ![r] = p]
    /\ Goto(r, "webhook.event")
    /\ UNCHANGED <<tags, tags0, tagsAdded, config, locals, calls, results,
                   responses, silent, script>>

(***************************************************************************)
(* handleWelcomeGenerate up to its first await (part_002:1008-1045)        *)
(***************************************************************************)
HandleWelcomeGenerate(r) ==
    LET conversation == request[r]
        firstCustomerMessage == CustomerThreadsAsc(conversation.threads)
        customerMessage ==
            IF firstCustomerMessage # <<>> THEN firstCustomerMessage[1].body
            ELSE PlaceholderMessage
    IN  IF MissingId(conversation.id)
        THEN Reject(r, "conversation_id is required", {"status", "message"})
        ELSE /\ Issue(r, "generateWelcomeEmail", <<customerMessage>>)
             /\ locals' = [locals EXCEPT
                  ![r].handler = "welcome",
                  ![r].customFieldsContext =
                      FormatCustomFieldsForPrompt(conversation)]
             /\ Goto(r, "generateWelcomeEmail")
             /\ UNCHANGED responses

(***************************************************************************)
(* handleWelcomeGenerate of src/webhook-server.js:701-736                  *)
(***************************************************************************)
HandleWelcomeGenerateSrc(r) ==
    LET conversation == request[r]
        firstCustomerMessage == CustomerThreadsAsc(conversation.threads)
    IN  IF MissingId(conversation.id)
        THEN Reject(r, "conversation_id is required", {"status", "message"})
        ELSE IF firstCustomerMessage = <<>>
        THEN Reject(r, "No customer message found in conversation",
                    {"status", "message"})
        ELSE /\ Issue(r, "generateWelcomeEmail",
                      <<firstCustomerMessage[1].body>>)
             /\ locals' = [locals EXCEPT ![r].handler = "welcome"]
             /\ Goto(r, "generateWelcomeEmail")
             /\ UNCHANGED responses

(***************************************************************************)
(* handleIntentDetect up to its first await (part_002:1186-1224, the same  *)
(* in src/webhook-server.js:772-810)                                       *)
(***************************************************************************)
HandleIntentDetect(r) ==
    LET conversation == request[r]
        latestCustomerThread == CustomerThreadsDesc(conversation.threads)
    IN  IF MissingId(conversation.id)
        THEN Reject(r, "conversation_id is required", {"status", "message"})
        ELSE IF latestCustomerThread = <<>>
        THEN Reject(r, "No customer message found in conversation",
                    {"status", "message", "conversation_id"})
        ELSE /\ Issue(r, "detectIntentWithOpenAI",
                      <<latestCustomerThread[1].body>>)
             /\ locals' = [locals EXCEPT ![r].handler = "intent"]
             /\ Goto(r, "detectIntentWithOpenAI")
             /\ UNCHANGED responses

\* the system prompt of the completion request carries either the block of
\* document context built from the retrieval answer, or nothing
OnyxContext == "onyxResult.context"
NoContext == ""

(***************************************************************************)
(* handleDraftGenerate up to its first await, which is inside              *)
(* generateDraftReply (part_002:1257-1294 and 550-601)                     *)
(***************************************************************************)
HandleDraftGenerate(r) ==
    LET conversation == request[r]
        userId == conversation.user_id
    IN  IF MissingId(conversation.id)
        THEN Reject(r, "conversation_id is required", {"status", "message"})
        ELSE /\ locals' = [locals EXCEPT
                  ![r].handler = "draft",
                  ![r].conversationHistory =
                      ConversationHistory(conversation.threads),
                  ![r].customFieldsContext =
                      IF conversation.variant = VariantFull
                      THEN FormatCustomFieldsForPrompt(conversation)
                      ELSE <<>>]
             /\ UNCHANGED responses
             /\ IF StrictEquals(userId, IntakeAgentId) /\ config.onyxAiApiKey
                THEN /\ Issue(r, "queryOnyxAI", <<>>)
                     /\ Goto(r, "queryOnyxAI")
                ELSE /\ Issue(r, "generateDraftReply",
                              <<AgentName(userId), NoContext>>)
                     /\ Goto(r, "generateDraftReply")

\* a mutation of HandlerFor: the default branch falls into the welcome case
HandlerFor_DefaultWelcome(event) ==
    CASE event = IntentEvent -> "intent"
      [] event = DraftEvent -> "draft"
      [] OTHER -> "welcome"

\* switch (event) { case ...: } of app.post('/webhook/event')
HandlerFor(event) ==
    CASE event = WelcomeEvent -> "welcome"
      [] event = IntentEvent -> "intent"
      [] event = DraftEvent -> "draft"
      [] OTHER -> "none"

\* a mutation of EventOf: the body field is preferred to the header
EventOf_BodyFirst(req) == IF req.event # "" THEN req.event ELSE req.header

\* const event = req.headers['x-freescout-event'] || req.body.event
EventOf(req) == IF req.header # "" THEN req.header ELSE req.event

(***************************************************************************)
(* app.post('/webhook/event'): the router, and the routed handler up to    *)
(* its first await                                                         *)
(***************************************************************************)
WebhookEvent(r) ==
    /\ pc[r] = "webhook.event"
    /\ LET event == EventOf(request[r])
           handler == HandlerFor(event)
       IN  IF event = ""
           THEN Reject(r, "event name is required", {"status", "message"})
           ELSE CASE handler = "welcome" ->
                       IF request[r].variant = VariantFull
                       THEN HandleWelcomeGenerate(r)
                       ELSE HandleWelcomeGenerateSrc(r)
                  [] handler = "intent" -> HandleIntentDetect(r)
                  [] handler = "draft" -> HandleDraftGenerate(r)
                  [] OTHER ->
                       /\ Respond(r, 200, "success",
                                  "Event received but no handler configured",
                                  {"status", "message"})
                       /\ Goto(r, "done")
                       /\ UNCHANGED <<calls, locals>>
    /\ UNCHANGED <<tags, tags0, tagsAdded, config, request, results, silent, script>>

(***************************************************************************)
(* Continuations: what a handler does when the call it awaits returns      *)
(***************************************************************************)
\* the variables no continuation touches
Frame == UNCHANGED <<tags0, config, request, silent, script>>

\* a mutation: the immediate and the delayed message are started together,
\* the first without await
GenerateWelcomeEmailReturns_NoAwait(r) ==
    /\ pc[r] = "generateWelcomeEmail"
    /\ \E ok \in BOOLEAN :
        /\ Returned(r, ok)
        /\ IF ok
           THEN /\ locals' = [locals EXCEPT ![r].text = WelcomeText]
                /\ calls' = [calls EXCEPT ![r] =
                      @ \o <<[kind |-> "sendEmailToCustomer",
                              arg |-> <<WelcomeText>>],
                             SendDelayedEmailToCustomer("uploadRequestBody",
                                 UploadRequestDelayValue, "minutes")>>]
                /\ Goto(r, "sendEmailToCustomer")
                /\ UNCHANGED responses
           ELSE Catch(r) /\ UNCHANGED locals
    /\ Frame /\ UNCHANGED <<tags, tagsAdded>>

\* const welcomeEmailBody = await generateWelcomeEmail(...), then
\* sendEmailToCustomer is called (part_002:1045-1052, src:736-743)
GenerateWelcomeEmailReturns(r) ==
    /\ pc[r] = "generateWelcomeEmail"
    /\ \E ok \in BOOLEAN :
        /\ Returned(r, ok)
        /\ IF ok
           THEN /\ locals' = [locals EXCEPT ![r].text = WelcomeText]
                /\ Issue(r, "sendEmailToCustomer", <<WelcomeText>>)
                /\ Goto(r, "sendEmailToCustomer")
                /\ UNCHANGED responses
           ELSE Catch(r) /\ UNCHANGED locals
    /\ Frame /\ UNCHANGED <<tags, tagsAdded>>

\* a mutation: a failed immediate message is logged and the handler goes on
SendEmailToCustomerReturns_Continue(r) ==
    /\ pc[r] = "sendEmailToCustomer"
    /\ \E ok \in BOOLEAN :
        /\ Returned(r, ok)
        /\ IF request[r].variant = VariantFull
           THEN /\ IssueDelayed(r)
                /\ Goto(r, "sendDelayedEmailToCustomer")
           ELSE /\ Issue(r, "addNote", <<"Email 1 verzonden">>)
                /\ Goto(r, "addNote")
        /\ UNCHANGED responses
    /\ Frame /\ UNCHANGED <<tags, tagsAdded, locals>>

\* await sendEmailToCustomer(...) returns; part_002:1145 then calls
\* sendDelayedEmailToCustomer, src:746 calls addNote
SendEmailToCustomerReturns(r) ==
    /\ pc[r] = "sendEmailToCustomer"
    /\ \E ok \in BOOLEAN :
        /\ Returned(r, ok)
        /\ IF ok
           THEN /\ IF request[r].variant = VariantFull
                   THEN /\ IssueDelayed(r)
                        /\ Goto(r, "sendDelayedEmailToCustomer")
                   ELSE /\ Issue(r, "addNote", <<"Email 1 verzonden">>)
                        /\ Goto(r, "addNote")
                /\ UNCHANGED responses
           ELSE Catch(r)
    /\ Frame /\ UNCHANGED <<tags, tagsAdded, locals>>

\* a mutation: a failed delayed message is swallowed and the handler goes on
SendDelayedEmailToCustomerReturns_Swallow(r) ==
    /\ pc[r] = "sendDelayedEmailToCustomer"
    /\ \E ok \in BOOLEAN :
        /\ Returned(r, ok)
        /\ locals' = [locals EXCEPT ![r].newTags = <<DocsRequested>>]
        /\ Issue(r, "tags.get", <<>>)
        /\ Goto(r, "tags.get")
        /\ UNCHANGED responses
    /\ Frame /\ UNCHANGED <<tags, tagsAdded>>

\* a mutation: the DOCS_REQUESTED tag step is left out
SendDelayedEmailToCustomerReturns_NoTag(r) ==
    /\ pc[r] = "sendDelayedEmailToCustomer"
    /\ \E ok \in BOOLEAN :
        /\ Returned(r, ok)
        /\ IF ok
           THEN /\ Issue(r, "addLineItem", <<"Email 1 | Email 2", "5 minute delay">>)
                /\ Goto(r, "addLineItem")
                /\ UNCHANGED responses
           ELSE Catch(r)
    /\ Frame /\ UNCHANGED <<tags, tagsAdded, locals>>

\* await sendDelayedEmailToCustomer(...) returns, then
\* updateConversationTags(conversationId, ['DOCS_REQUESTED']) is called and
\* runs up to its axios.get (part_002:1145-1154, 414-430)
SendDelayedEmailToCustomerReturns(r) ==
    /\ pc[r] = "sendDelayedEmailToCustomer"
    /\ \E ok \in BOOLEAN :
        /\ Returned(r, ok)
        /\ IF ok
           THEN /\ locals' = [locals EXCEPT ![r].newTags = <<DocsRequested>>]
                /\ Issue(r, "tags.get", <<>>)
                /\ Goto(r, "tags.get")
                /\ UNCHANGED responses
           ELSE Catch(r) /\ UNCHANGED locals
    /\ Frame /\ UNCHANGED <<tags, tagsAdded>>

\* a mutation of UpdateConversationTagsGetReturns: a failed read of the
\* stored tags is tried again, up to three times in all
UpdateConversationTagsGetReturns_Retry(r) ==
    /\ pc[r] = "tags.get"
    /\ \E ok \in BOOLEAN :
        /\ Returned(r, ok)
        /\ IF ok
           THEN LET existingTags == tags
                    allTags == MergeTags(existingTags, locals[r].newTags)
                IN  /\ locals' = [locals EXCEPT ![r].existingTags = existingTags,
                                                ![r].allTags = allTags]
                    /\ Issue(r, "tags.put", allTags)
                    /\ Goto(r, "tags.put")
                    /\ UNCHANGED responses
           ELSE IF Cardinality({k \in DOMAIN calls[r] :
                                  calls[r][k].kind = "tags.get"}) < 3
                THEN /\ Issue(r, "tags.get", <<>>)
                     /\ UNCHANGED <<pc, responses, locals>>
                ELSE Catch(r) /\ UNCHANGED locals
    /\ Frame /\ UNCHANGED <<tags, tagsAdded>>

\* updateConversationTags: the axios.get of the stored tags returns, the
\* merged list is computed and the axios.put is called (part_002:417-450)
UpdateConversationTagsGetReturns(r) ==
    /\ pc[r] = "tags.get"
    /\ \E ok \in BOOLEAN :
        /\ Returned(r, ok)
        /\ IF ok
           THEN LET existingTags == tags
                    allTags == MergeTags(existingTags, locals[r].newTags)
                IN  /\ locals' = [locals EXCEPT ![r].existingTags = existingTags,
                                                ![r].allTags = allTags]
                    /\ Issue(r, "tags.put", allTags)
                    /\ Goto(r, "tags.put")
                    /\ UNCHANGED responses
           ELSE Catch(r) /\ UNCHANGED locals
    /\ Frame /\ UNCHANGED <<tags, tagsAdded>>

\* a mutation of UpdateConversationTagsPutReturns: a failed tag write is
\* logged and the caller adds its timeline entry all the same
UpdateConversationTagsPutReturns_Continue(r) ==
    /\ pc[r] = "tags.put"
    /\ \E ok \in BOOLEAN :
        /\ Returned(r, ok)
        /\ IF ok
           THEN /\ tags' = locals[r].allTags
                /\ tagsAdded' = tagsAdded \cup Range(locals[r].newTags)
           ELSE UNCHANGED <<tags, tagsAdded>>
        /\ IF request[r].variant = VariantFull
           THEN /\ Issue(r, "addLineItem", <<"Payment confirmed">>)
                /\ Goto(r, "addLineItem")
           ELSE /\ Issue(r, "addNote", <<"PAYMENT_CONFIRMED">>)
                /\ Goto(r, "addNote")
        /\ UNCHANGED responses
    /\ Frame /\ UNCHANGED locals

\* updateConversationTags: the axios.put returns (the helpdesk has replaced
\* the stored tags by the list sent); the caller then adds its timeline
\* entry: addLineItem in part_002:1157,1230, addNote in src:816
UpdateConversationTagsPutReturns(r) ==
    /\ pc[r] = "tags.put"
    /\ \E ok \in BOOLEAN :
        /\ Returned(r, ok)
        /\ IF ok
           THEN /\ tags' = locals[r].allTags
                /\ tagsAdded' = tagsAdded \cup Range(locals[r].newTags)
                /\ IF request[r].variant = VariantFull
                   THEN /\ Issue(r, "addLineItem",
                                 CASE locals[r].handler = "welcome" ->
                                        <<"Email 1 | Email 2",
                                          "5 minute delay">>
                                   [] locals[r].handler = "payment" ->
                                        <<"Payment confirmed">>
                                   [] OTHER ->
                                        <<"Intent detected", locals[r].text>>)
                        /\ Goto(r, "addLineItem")
                   ELSE /\ Issue(r, "addNote",
                                 IF locals[r].handler = "payment"
                                 THEN <<"PAYMENT_CONFIRMED">>
                                 ELSE <<"INTENT_DETECTED", locals[r].text>>)
                        /\ Goto(r, "addNote")
                /\ UNCHANGED responses
           ELSE Catch(r) /\ UNCHANGED <<tags, tagsAdded>>
    /\ Frame /\ UNCHANGED locals

\* res.json({status: 'success', ...}) at the end of a handler
RespondSuccess(r) ==
    /\ responses' = [responses EXCEPT ![r] = Append(@,
         [code |-> 200, status |-> "success", message |-> locals[r].handler,
          keys |->
            CASE locals[r].handler = "welcome"
                   /\ request[r].variant = VariantFull ->
                   {"status", "conversation_id", "email_length",
                    "upload_request_delay", "message"}
              [] locals[r].handler = "welcome"
                   /\ request[r].variant = VariantSrc ->
                   {"status", "conversation_id", "email_length", "message"}
              [] locals[r].handler = "intent" ->
                   {"status", "intent", "conversation_id", "mailbox_id",
                    "analyzed_text_length"}
              [] locals[r].handler = "payment" ->
                   {"status", "conversation_id", "message",
                    "payment_details"}
              [] OTHER ->
                   {"status", "conversation_id", "draft_length", "message"},
          upload_request_delay |->
            IF locals[r].handler = "welcome"
                 /\ request[r].variant = VariantFull
            THEN "5 minutes" ELSE ""])]
    /\ Goto(r, "done")
    /\ UNCHANGED calls

\* a mutation of AddLineItemReturns: a failed timeline entry is logged and
\* the handler answers success all the same
AddLineItemReturns_Swallow(r) ==
    /\ pc[r] = "addLineItem"
    /\ \E ok \in BOOLEAN :
        /\ Returned(r, ok)
        /\ RespondSuccess(r)
    /\ Frame /\ UNCHANGED <<tags, tagsAdded, locals>>

\* await addLineItem(...) returns: the last step of handleWelcomeGenerate
\* and handleIntentDetect of part_002 (1157-1172, 1230-1243)
AddLineItemReturns(r) ==
    /\ pc[r] = "addLineItem"
    /\ \E ok \in BOOLEAN :
        /\ Returned(r, ok)
        /\ IF ok THEN RespondSuccess(r) ELSE Catch(r)
    /\ Frame /\ UNCHANGED <<tags, tagsAdded, locals>>

\* await addNote(...) returns: the last step of handleWelcomeGenerate and
\* handleIntentDetect of src/webhook-server.js (746-758, 816-829)
AddNoteReturns(r) ==
    /\ pc[r] = "addNote"
    /\ \E ok \in BOOLEAN :
        /\ Returned(r, ok)
        /\ IF ok THEN RespondSuccess(r) ELSE Catch(r)
    /\ Frame /\ UNCHANGED <<tags, tagsAdded, locals>>

\* the string held by a trimmed content: its one piece of text, or ''
TextOf(v) == IF v = <<>> THEN "" ELSE v[1]

\* a mutation of DetectIntentWithOpenAIReturns: an answer outside the
\* intents of the prompt is refused
DetectIntentWithOpenAIReturns_Validated(r) ==
    /\ pc[r] = "detectIntentWithOpenAI"
    /\ \E ok \in BOOLEAN :
        /\ Returned(r, ok)
        /\ IF ok
           THEN \E content \in IntentContents :
                LET detectedIntent == TextOf(Trim(content))
                IN  IF detectedIntent \in IntentLabels
                    THEN /\ locals' = [locals EXCEPT
                               ![r].content = content,
                               ![r].text = detectedIntent,
                               ![r].newTags = <<detectedIntent>>]
                         /\ Issue(r, "tags.get", <<>>)
                         /\ Goto(r, "tags.get")
                         /\ UNCHANGED responses
                    ELSE /\ locals' = [locals EXCEPT ![r].content = content]
                         /\ Catch(r)
           ELSE Catch(r) /\ UNCHANGED locals
    /\ Frame /\ UNCHANGED <<tags, tagsAdded>>

\* const detectedIntent = await detectIntentWithOpenAI(...), then
\* updateConversationTags(conversationId, [detectedIntent]) is called and
\* runs up to its axios.get (part_002:1224-1227)
DetectIntentWithOpenAIReturns(r) ==
    /\ pc[r] = "detectIntentWithOpenAI"
    /\ \E ok \in BOOLEAN :
        /\ Returned(r, ok)
        /\ IF ok
           THEN \E content \in IntentContents :
                LET detectedIntent == TextOf(Trim(content))
                IN  /\ locals' = [locals EXCEPT
                          ![r].content = content,
                          ![r].text = detectedIntent,
                          ![r].newTags = <<detectedIntent>>]
                    /\ Issue(r, "tags.get", <<>>)
                    /\ Goto(r, "tags.get")
                    /\ UNCHANGED responses
           ELSE Catch(r) /\ UNCHANGED locals
    /\ Frame /\ UNCHANGED <<tags, tagsAdded>>

\* a mutation of QueryOnyxAIReturns: the retrieval error is rethrown, which
\* ends the handler in its catch
QueryOnyxAIReturns_Throw(r) ==
    /\ pc[r] = "queryOnyxAI"
    /\ \E ok \in BOOLEAN :
        /\ Returned(r, ok)
        /\ IF ok
           THEN /\ Issue(r, "generateDraftReply",
                         <<AgentName(request[r].user_id), OnyxContext>>)
                /\ Goto(r, "generateDraftReply")
                /\ UNCHANGED responses
           ELSE Catch(r)
    /\ Frame /\ UNCHANGED <<tags, tagsAdded, locals>>

\* generateDraftReply: await queryOnyxAI(customerQuery) returns; queryOnyxAI
\* catches its own errors and returns an empty context, so the completion
\* request follows in both cases (part_002:587-601, 293-332).  A retrieval
\* answer may itself be empty (`if (onyxResult.context)`).
QueryOnyxAIReturns(r) ==
    /\ pc[r] = "queryOnyxAI"
    /\ \E ok \in BOOLEAN :
        /\ Returned(r, ok)
        /\ \E context \in IF ok THEN {OnyxContext, NoContext}
                           ELSE {NoContext} :
             Issue(r, "generateDraftReply",
                   <<AgentName(request[r].user_id), context>>)
        /\ Goto(r, "generateDraftReply")
    /\ Frame /\ UNCHANGED <<tags, tagsAdded, locals, responses>>

\* a mutation of CreateDraftReply: the thread is posted without
\* state: 'draft', which the helpdesk takes as a message to send
CreateDraftReply_Published(r, draftText, assignedUserId) ==
    calls' = [calls EXCEPT ![r] = Append(@,
        [kind |-> "createDraftReply", arg |-> <<draftText>>,
         type |-> "message", state |-> "published",
         user |-> IF Truthy(assignedUserId) THEN assignedUserId
                  ELSE Num(SystemUserId)])]

\* createDraftReply posts the thread {type: 'message', text, user, state}
\* with user: assignedUserId || 1 and state: 'draft' (part_002:649-660)
CreateDraftReply(r, draftText, assignedUserId) ==
    calls' = [calls EXCEPT ![r] = Append(@,
        [kind |-> "createDraftReply", arg |-> <<draftText>>,
         type |-> "message", state |-> "draft",
         user |-> IF Truthy(assignedUserId) THEN assignedUserId
                  ELSE Num(SystemUserId)])]

\* const draftReply = await generateDraftReply(...), then createDraftReply
\* is called (part_002:1294-1297)
GenerateDraftReplyReturns(r) ==
    /\ pc[r] = "generateDraftReply"
    /\ \E ok \in BOOLEAN :
        /\ Returned(r, ok)
        /\ IF ok
           THEN /\ locals' = [locals EXCEPT ![r].text = DraftText]
                /\ CreateDraftReply(r, DraftText, request[r].user_id)
                /\ Goto(r, "createDraftReply")
                /\ UNCHANGED responses
           ELSE Catch(r) /\ UNCHANGED locals
    /\ Frame /\ UNCHANGED <<tags, tagsAdded>>

\* await createDraftReply(...) returns (part_002:1297-1306)
CreateDraftReplyReturns(r) ==
    /\ pc[r] = "createDraftReply"
    /\ \E ok \in BOOLEAN :
        /\ Returned(r, ok)
        /\ IF ok THEN RespondSuccess(r) ELSE Catch(r)
    /\ Frame /\ UNCHANGED <<tags, tagsAdded, locals>>

(***************************************************************************)
(* The server handling one request at a time                               *)
(***************************************************************************)
Next ==
    \E r \in Requests :
        \/ Receive(r)
        \/ WebhookEvent(r)
        \/ GenerateWelcomeEmailReturns(r)
        \/ SendEmailToCustomerReturns(r)
        \/ SendDelayedEmailToCustomerReturns(r)
        \/ UpdateConversationTagsGetReturns(r)
        \/ UpdateConversationTagsPutReturns(r)
        \/ AddLineItemReturns(r)
        \/ AddNoteReturns(r)
        \/ DetectIntentWithOpenAIReturns(r)
        \/ QueryOnyxAIReturns(r)
        \/ GenerateDraftReplyReturns(r)
        \/ CreateDraftReplyReturns(r)

Spec == Init /\ [][Next]_vars

(***************************************************************************)
(* Concurrent requests for the same conversation: Express starts a handler *)
(* for every request that arrives, and the handlers interleave at their    *)
(* awaits.                                                                 *)
(***************************************************************************)
ConcurrentPayloads ==
    [variant : Variants, header : RegisteredEvents, event : {""},
     id : {42}, user_id : {Num(IntakeAgentId)},
     threads : {<<[type |-> "customer", createdAt |-> 1, body |-> Bodies[1]]>>},
     customFields : {<<>>},
     conversation : {NoConversation}]

ReceiveConcurrent(r) ==
    /\ pc[r] = "idle"
    /\ \A q \in Requests : q < r => pc[q] # "idle"
    /\ \E p \in ConcurrentPayloads : request' = [request EXCEPT ![r] = p]
    /\ Goto(r, "webhook.event")
    /\ UNCHANGED <<tags, tags0, tagsAdded, config, locals, calls, results,
                   responses, silent, script>>

NextConc ==
    \E r \in Requests :
        \/ ReceiveConcurrent(r)
        \/ WebhookEvent(r)
        \/ GenerateWelcomeEmailReturns(r)
        \/ SendEmailToCustomerReturns(r)
        \/ SendDelayedEmailToCustomerReturns(r)
        \/ UpdateConversationTagsGetReturns(r)
        \/ UpdateConversationTagsPutReturns(r)
        \/ AddLineItemReturns(r)
        \/ AddNoteReturns(r)
        \/ DetectIntentWithOpenAIReturns(r)
        \/ QueryOnyxAIReturns(r)
        \/ GenerateDraftReplyReturns(r)
        \/ CreateDraftReplyReturns(r)

SpecConc == Init /\ [][NextConc]_vars

(***************************************************************************)
(* The same server when some gateways accept a request and never answer it *)
(***************************************************************************)
InitSilent == Listening /\ silent \in SUBSET Gateways

SpecSilent == InitSilent /\ [][NextConc]_vars

(***************************************************************************)
(* Draft dispatches over conversations whose threads have any type the     *)
(* draft handler distinguishes, one request at a time                      *)
(***************************************************************************)
DraftThreadTypes == ThreadTypes \cup {"reply"}

DraftThreadLists ==
    UNION {{[i \in 1..n |-> [type |-> f[i][1], createdAt |-> f[i][2],
                             body |-> Bodies[i]]] :
               f \in [1..n -> DraftThreadTypes \X Times]} :
           n \in 0..MaxThreads}

DraftPayloads ==
    [variant : Variants, header : {DraftEvent}, event : {""},
     id : {42}, user_id : {Undefined, Num(IntakeAgentId)},
     threads : DraftThreadLists, customFields : {<<>>},
     conversation : {NoConversation}]

ReceiveDraft(r) ==
    /\ \A q \in Requests : pc[q] = "idle"
    /\ \A q \in Requests : q >= r
    /\ \E p \in DraftPayloads : request' = [request EXCEPT ![r] = p]
    /\ Goto(r, "webhook.event")
    /\ UNCHANGED <<tags, tags0, tagsAdded, config, locals, calls, results,
                   responses, silent, script>>

NextDraft ==
    \E r \in Requests :
        \/ ReceiveDraft(r)
        \/ WebhookEvent(r)
        \/ QueryOnyxAIReturns(r)
        \/ GenerateDraftReplyReturns(r)
        \/ CreateDraftReplyReturns(r)

SpecDraft == Init /\ [][NextDraft]_vars

(***************************************************************************)
(* Welcome and draft dispatches of part_002 over conversations that carry  *)
(* custom fields, followed up to the point where the prompt is built       *)
(***************************************************************************)
MaxFields == 2

FieldIds == ExcludedFieldIds \cup {SavingsValue}

FieldName(id) ==
    CASE id = FormId -> "Form ID"
      [] id = ActiveStep -> "Active Step"
      [] id = RestoreLink -> "Restore Link"
      [] OTHER -> "Savings Value"

FieldValues == {<<>>, <<" ">>, <<"1">>, <<" ", "1", " ">>}

CustomFieldLists ==
    UNION {{[i \in 1..n |-> [id |-> f[i][1], name |-> FieldName(f[i][1]),
                             value |-> f[i][2]]] :
               f \in [1..n -> FieldIds \X FieldValues]} :
           n \in 0..MaxFields}

FieldPayloads ==
    [variant : {VariantFull}, header : {WelcomeEvent, DraftEvent},
     event : {""}, id : {42}, user_id : {Undefined},
     threads : {<<[type |-> "customer", createdAt |-> 1, body |-> Bodies[1]]>>},
     customFields : CustomFieldLists, conversation : {NoConversation}]

ReceiveFields(r) ==
    /\ \A q \in Requests : pc[q] = "idle"
    /\ \A q \in Requests : q >= r
    /\ \E p \in FieldPayloads : request' = [request EXCEPT ![r] = p]
    /\ Goto(r, "webhook.event")
    /\ UNCHANGED <<tags, tags0, tagsAdded, config, locals, calls, results,
                   responses, silent, script>>

NextFields == \E r \in Requests : ReceiveFields(r) \/ WebhookEvent(r)

SpecFields == Init /\ [][NextFields]_vars

(***************************************************************************)
(* Requests in the payload format of docs/WEBHOOK-CONFIGURATION.md: the    *)
(* event name in the body, the conversation id under `conversation`        *)
(***************************************************************************)
DocumentedPayloads ==
    [variant : Variants, header : {""},
     event : RegisteredEvents \cup {UnknownEventName},
     id : {0}, user_id : {Undefined, Num(IntakeAgentId)}, threads : {<<>>},
     customFields : {<<>>}, conversation : {[id |-> 123]}]

ReceiveDocumented(r) ==
    /\ \A q \in Requests : pc[q] = "idle"
    /\ \A q \in Requests : q >= r
    /\ \E p \in DocumentedPayloads : request' = [request EXCEPT ![r] = p]
    /\ Goto(r, "webhook.event")
    /\ UNCHANGED <<tags, tags0, tagsAdded, config, locals, calls, results,
                   responses, silent, script>>

NextDocumented ==
    \E r \in Requests : ReceiveDocumented(r) \/ WebhookEvent(r)

SpecDocumented == Init /\ [][NextDocumented]_vars

(***************************************************************************)
(* updateConversationTags called directly, one call after another, with    *)
(* any tag list (part_002:414-462).  The call is logged in calls[1] with   *)
(* the list it was given and in results[1] with whether it returned.       *)
(***************************************************************************)
MaxDirectCalls == 2
MaxNewTags == 2

TagNames == {DocsRequested} \cup IntentOutputs

UpdateConversationTags(newTags) ==
    /\ Len(calls[1]) < MaxDirectCalls
    /\ \E getOk, putOk \in BOOLEAN :
        LET existingTags == tags
            allTags == MergeTags(existingTags, newTags)
        IN  /\ Issue(1, "updateConversationTags", newTags)
            /\ Returned(1, getOk /\ putOk)
            /\ IF getOk /\ putOk
               THEN /\ tags' = allTags
                    /\ tagsAdded' = tagsAdded \cup Range(newTags)
               ELSE UNCHANGED <<tags, tagsAdded>>
    /\ UNCHANGED <<tags0, config, pc, request, locals, responses, silent, script>>

NextTags == \E newTags \in SeqsUpTo(TagNames, MaxNewTags) :
                UpdateConversationTags(newTags)

SpecTags == Init /\ [][NextTags]_vars

(***************************************************************************)
(* POST /webhook/signed-and-paid: the payment system reports that the      *)
(* customer has signed and paid                                            *)
(***************************************************************************)
SignedAndPaidTag == "SIGNED_AND_PAID"

\* req.body of the payment webhook; `id` holds conversation_id, 0 stands
\* for a body without it
PaymentPayloads ==
    [variant : Variants, header : {""}, event : {""},
     id : ConversationIds, user_id : {Undefined}, threads : {<<>>},
     customFields : {<<>>}, conversation : {NoConversation}]

\* the handler up to its first await: the conversation_id check, then
\* updateConversationTags(conversation_id, ['SIGNED_AND_PAID']) up to its
\* axios.get
SignedAndPaid(r) ==
    /\ pc[r] = "idle"
    /\ \E p \in PaymentPayloads :
        /\ request' = [request EXCEPT ![r] = p]
        /\ IF p.id = 0
           THEN Reject(r, "conversation_id is required",
                       {"status", "message"})
           ELSE /\ locals' = [locals EXCEPT ![r].handler = "payment",
                                            ![r].newTags = <<SignedAndPaidTag>>]
                /\ Issue(r, "tags.get", <<>>)
                /\ Goto(r, "tags.get")
                /\ UNCHANGED responses
    /\ UNCHANGED <<tags, tags0, tagsAdded, config, results, silent, script>>

NextPayment ==
    \E r \in Requests :
        \/ SignedAndPaid(r)
        \/ UpdateConversationTagsGetReturns(r)
        \/ UpdateConversationTagsPutReturns(r)
        \/ AddLineItemReturns(r)
        \/ AddNoteReturns(r)

SpecPayment == Init /\ [][NextPayment]_vars

(***************************************************************************)
(* scripts/deploy-workflows.js.  A workflow of the configuration file is   *)
(* {name, actions}, actions being a list of action groups and an action    *)
(* {type, value}.  A run of the script is held in `script`; the server     *)
(* variables play no part in it.                                           *)
(***************************************************************************)
MaxWorkflows == 2

serverVars == <<tags, tags0, tagsAdded, config, pc, request, locals, calls,
                results, responses, silent>>

\* `${WEBHOOK_SERVER_URL}/webhook/event`
WebhookUrl == "WEBHOOK_SERVER_URL/webhook/event"

RECURSIVE Flatten(_)
Flatten(ss) == IF ss = <<>> THEN <<>> ELSE ss[1] \o Flatten(Tail(ss))

\* the webhook actions of one workflow in the order the nested forEach
\* visits them, each with the name of its workflow
WebhookActionsOf(workflow) ==
    LET found == SelectSeq(Flatten(workflow.actions),
                           LAMBDA action : action.type = "webhook")
    IN  [i \in DOMAIN found |->
            [eventName |-> found[i].value, workflowName |-> workflow.name]]

\* a mutation of ExtractWebhookEvents: the events are collected in an
\* array instead of a Set
ExtractWebhookEvents_NoSet(workflows) ==
    LET found == Flatten([w \in DOMAIN workflows |->
                             WebhookActionsOf(workflows[w])])
    IN  IF found = <<>> THEN <<>>
        ELSE << [url |-> WebhookUrl,
                 events |-> [i \in DOMAIN found |-> found[i].eventName],
                 workflows |->
                     [i \in DOMAIN found |-> found[i].workflowName]] >>

\* extractWebhookEvents: every webhook action goes to the one URL; the map
\* has an entry only once an action was found; events is a Set, which
\* keeps insertion order
ExtractWebhookEvents(workflows) ==
    LET found == Flatten([w \in DOMAIN workflows |->
                             WebhookActionsOf(workflows[w])])
    IN  IF found = <<>> THEN <<>>
        ELSE << [url |-> WebhookUrl,
                 events |->
                     Dedup([i \in DOMAIN found |-> found[i].eventName]),
                 workflows |->
                     [i \in DOMAIN found |-> found[i].workflowName]] >>

\* contents of config/box3-workflows-full-lifecycle.json
WorkflowNames == <<"workflow1", "workflow2", "workflow3">>

Webhook(value) == [type |-> "webhook", value |-> value]
AddTag == [type |-> "tag", value |-> DocsRequested]

ActionGroups ==
    {<<Webhook(WelcomeEvent)>>, <<AddTag>>,
     <<Webhook(IntentEvent), Webhook(WelcomeEvent)>>,
     <<AddTag, Webhook(IntentEvent)>>}

WorkflowActions == SeqsUpTo(ActionGroups, 2)

WorkflowLists ==
    UNION {{[i \in 1..n |-> [name |-> WorkflowNames[i], actions |-> f[i]]] :
               f \in [1..n -> WorkflowActions]} :
           n \in 0..MaxWorkflows}

\* outcomes of POST /api/webhooks
RegisterOutcomes == {"registered", "already_exists", "error"}

InitDeploy ==
    /\ tags = <<>> /\ tags0 = <<>> /\ tagsAdded = {}
    /\ config = [onyxAiApiKey |-> FALSE]
    /\ pc = [r \in Requests |-> "idle"]
    /\ request = [r \in Requests |-> NoRequest]
    /\ locals = [r \in Requests |-> NoLocals]
    /\ calls = [r \in Requests |-> <<>>]
    /\ results = [r \in Requests |-> <<>>]
    /\ responses = [r \in Requests |-> <<>>]
    /\ silent = {}
    /\ \E configExists, token \in BOOLEAN, workflows \in WorkflowLists :
         script = [program |-> "deploy", pc |-> "start",
                   configExists |-> configExists, token |-> token,
                   workflows |-> workflows, webhookEvents |-> <<>>,
                   webhookResults |-> [success |-> <<>>, failed |-> <<>>,
                                       alreadyExists |-> <<>>],
                   results |-> [success |-> <<>>, failed |-> <<>>],
                   calls |-> <<>>, answers |-> <<>>, exit |-> -1]

\* process.exit(code), or the end of the script (exit status 0)
Exit(s, code) == [s EXCEPT !.pc = "exited", !.exit = code]

\* client.post(path, body) is called
Post(s, path, body) ==
    [s EXCEPT !.calls = Append(@, [method |-> "POST", path |-> path,
                                   body |-> body])]

\* Step 2 from workflow i on: createWorkflow(workflows[i]) is called, or
\* the loop is over, the summary is printed and the script ends
DeployFrom(s, i) ==
    IF i <= Len(s.workflows)
    THEN [Post(s, "/api/mailbox/workflows", s.workflows[i].name)
             EXCEPT !.pc = "createWorkflow"]
    ELSE Exit(s, IF Len(s.results.failed) > 0 THEN 1 ELSE 0)

\* Step 1 from webhook configuration i on
RegisterFrom(s, i) ==
    IF i <= Len(s.webhookEvents)
    THEN [Post(s, "/api/webhooks", s.webhookEvents[i].events)
             EXCEPT !.pc = "registerWebhook"]
    ELSE DeployFrom(s, 1)

\* deployWorkflows up to its first await
DeployStart ==
    /\ script.program = "deploy" /\ script.pc = "start"
    /\ script' =
         IF ~script.configExists \/ ~script.token THEN Exit(script, 1)
         ELSE RegisterFrom(
                  [script EXCEPT !.webhookEvents =
                                     ExtractWebhookEvents(script.workflows)],
                  1)
    /\ UNCHANGED serverVars

\* await registerWebhook(...) returns or throws inside the loop's try
RegisterWebhookReturns ==
    /\ script.program = "deploy" /\ script.pc = "registerWebhook"
    /\ \E outcome \in RegisterOutcomes :
        LET i == Len(script.webhookResults.success)
                   + Len(script.webhookResults.failed)
                   + Len(script.webhookResults.alreadyExists) + 1
            webhookConfig == script.webhookEvents[i]
            s == CASE outcome = "registered" ->
                        [script EXCEPT !.webhookResults.success =
                                           Append(@, webhookConfig.events)]
                   [] outcome = "already_exists" ->
                        [script EXCEPT !.webhookResults.alreadyExists =
                                           Append(@, webhookConfig.events)]
                   [] OTHER ->
                        [script EXCEPT !.webhookResults.failed =
                                           Append(@, webhookConfig.events)]
        IN  script' = RegisterFrom([s EXCEPT !.answers = Append(@, outcome)],
                                   i + 1)
    /\ UNCHANGED serverVars

\* a mutation of CreateWorkflowReturns: the first failed creation ends the
\* script
CreateWorkflowReturns_Abort ==
    /\ script.program = "deploy" /\ script.pc = "createWorkflow"
    /\ \E ok \in BOOLEAN :
        LET i == Len(script.results.success) + Len(script.results.failed) + 1
            workflow == script.workflows[i]
        IN  script' =
              IF ok
              THEN DeployFrom(
                       [script EXCEPT
                            !.results.success = Append(@, workflow.name),
                            !.answers = Append(@, "created")],
                       i + 1)
              ELSE Exit([script EXCEPT
                             !.results.failed = Append(@, workflow.name),
                             !.answers = Append(@, "error")], 1)
    /\ UNCHANGED serverVars

\* await createWorkflow(...) returns or throws inside the loop's try
CreateWorkflowReturns ==
    /\ script.program = "deploy" /\ script.pc = "createWorkflow"
    /\ \E ok \in BOOLEAN :
        LET i == Len(script.results.success) + Len(script.results.failed) + 1
            workflow == script.workflows[i]
            s == IF ok
                 THEN [script EXCEPT !.results.success =
                                         Append(@, workflow.name)]
                 ELSE [script EXCEPT !.results.failed =
                                         Append(@, workflow.name)]
        IN  script' = DeployFrom(
                          [s EXCEPT !.answers =
                               Append(@, IF ok THEN "created" ELSE "error")],
                          i + 1)
    /\ UNCHANGED serverVars

NextDeploy == DeployStart \/ RegisterWebhookReturns \/ CreateWorkflowReturns

SpecDeploy == InitDeploy /\ [][NextDeploy]_vars

(***************************************************************************)
(* scripts/update-workflows.js                                             *)
(***************************************************************************)
ConfigNames == {WorkflowNames[1], WorkflowNames[2]}

\* config.workflows: names may repeat
UpdateConfigs ==
    {[i \in DOMAIN ns |-> [name |-> ns[i], actions |-> <<>>]] :
        ns \in SeqsUpTo(ConfigNames, MaxWorkflows)}

\* the workflows the helpdesk holds: their ids are distinct
ExistingWorkflowLists ==
    {[i \in DOMAIN ns |-> [id |-> 60 + i, name |-> ns[i]]] :
        ns \in SeqsUpTo({WorkflowNames[1], WorkflowNames[2],
                         WorkflowNames[3]}, MaxWorkflows)}

InitUpdate ==
    /\ tags = <<>> /\ tags0 = <<>> /\ tagsAdded = {}
    /\ config = [onyxAiApiKey |-> FALSE]
    /\ pc = [r \in Requests |-> "idle"]
    /\ request = [r \in Requests |-> NoRequest]
    /\ locals = [r \in Requests |-> NoLocals]
    /\ calls = [r \in Requests |-> <<>>]
    /\ results = [r \in Requests |-> <<>>]
    /\ responses = [r \in Requests |-> <<>>]
    /\ silent = {}
    /\ \E configExists, token \in BOOLEAN, newWorkflows \in UpdateConfigs,
          existing \in ExistingWorkflowLists :
         script = [program |-> "update", pc |-> "start",
                   configExists |-> configExists, token |-> token,
                   workflows |-> newWorkflows, existing |-> existing,
                   results |-> [updated |-> <<>>, notFound |-> <<>>,
                                failed |-> <<>>],
                   calls |-> <<>>, answers |-> <<>>, exit |-> -1]

\* existingWorkflowMap.get(name): a later entry of the same name replaces
\* an earlier one in the Map; 0 stands for undefined
ExistingId(existing, name) ==
    LET found == {i \in DOMAIN existing : existing[i].name = name}
    IN  IF found = {} THEN 0
        ELSE existing[CHOOSE i \in found : \A j \in found : j <= i].id

\* client.put(path with the workflow id, body) is called
Put(s, id, body) ==
    [s EXCEPT !.calls = Append(@, [method |-> "PUT",
                                   path |-> "/api/mailbox/workflows/id",
                                   id |-> id, body |-> body])]

\* a mutation of UpdateFrom: a workflow not found is created
RECURSIVE UpdateFrom_Create(_, _)
UpdateFrom_Create(s, i) ==
    IF i > Len(s.workflows)
    THEN Exit(s, IF Len(s.results.failed) > 0 THEN 1 ELSE 0)
    ELSE LET workflow == s.workflows[i]
             id == ExistingId(s.existing, workflow.name)
         IN  IF id = 0
             THEN [Post(s, "/api/mailbox/workflows", workflow.name)
                      EXCEPT !.pc = "updateWorkflow"]
             ELSE [Put(s, id, workflow.name) EXCEPT !.pc = "updateWorkflow"]

\* the loop from workflow i on, up to its next await: workflows not found
\* are noted and skipped, updateWorkflow is called for the first one found,
\* or the loop is over, the summary is printed and the script ends
RECURSIVE UpdateFrom(_, _)
UpdateFrom(s, i) ==
    IF i > Len(s.workflows)
    THEN Exit(s, IF Len(s.results.failed) > 0 THEN 1 ELSE 0)
    ELSE LET workflow == s.workflows[i]
             id == ExistingId(s.existing, workflow.name)
         IN  IF id = 0
             THEN UpdateFrom([s EXCEPT !.results.notFound =
                                           Append(@, workflow.name)], i + 1)
             ELSE [Put(s, id, workflow.name) EXCEPT !.pc = "updateWorkflow"]

\* updateWorkflows up to its first await
UpdateStart ==
    /\ script.program = "update" /\ script.pc = "start"
    /\ script' =
         IF ~script.configExists \/ ~script.token THEN Exit(script, 1)
         ELSE [script EXCEPT
                   !.pc = "getExistingWorkflows",
                   !.calls = Append(@, [method |-> "GET",
                                        path |-> "/api/mailbox/workflows"])]
    /\ UNCHANGED serverVars

\* await getExistingWorkflows(mailboxId) returns, or throws into the catch
\* of updateWorkflows
GetExistingWorkflowsReturns ==
    /\ script.program = "update" /\ script.pc = "getExistingWorkflows"
    /\ \E ok \in BOOLEAN :
        script' =
          IF ok
          THEN UpdateFrom([script EXCEPT !.answers = Append(@, "ok")], 1)
          ELSE Exit([script EXCEPT !.answers = Append(@, "error")], 1)
    /\ UNCHANGED serverVars

\* await updateWorkflow(...) returns or throws inside the loop's try
UpdateWorkflowReturns ==
    /\ script.program = "update" /\ script.pc = "updateWorkflow"
    /\ \E ok \in BOOLEAN :
        LET i == Len(script.results.updated) + Len(script.results.notFound)
                   + Len(script.results.failed) + 1
            workflow == script.workflows[i]
            s == IF ok
                 THEN [script EXCEPT !.results.updated =
                                         Append(@, workflow.name)]
                 ELSE [script EXCEPT !.results.failed =
                                         Append(@, workflow.name)]
        IN  script' = UpdateFrom(
                          [s EXCEPT !.answers =
                               Append(@, IF ok THEN "ok" ELSE "error")],
                          i + 1)
    /\ UNCHANGED serverVars

NextUpdate ==
    UpdateStart \/ GetExistingWorkflowsReturns \/ UpdateWorkflowReturns

SpecUpdate == InitUpdate /\ [][NextUpdate]_vars

(***************************************************************************)
(* Vocabulary of the properties                                            *)
(***************************************************************************)
Kinds(r) == [i \in DOMAIN calls[r] |-> calls[r][i].kind]

Routed(r) == pc[r] \notin {"idle", "webhook.event"}

IsWelcome(r) == EventOf(request[r]) = WelcomeEvent
IsIntent(r) == EventOf(request[r]) = IntentEvent

WelcomePipeline ==
    <<"generateWelcomeEmail", "sendEmailToCustomer",
      "sendDelayedEmailToCustomer", "tags.get", "tags.put", "addLineItem">>

IsPrefix(s, t) == Len(s) <= Len(t) /\ s = SubSeq(t, 1, Len(s))

ErrorResponse(code) ==
    [code |-> code, status |-> "error", message |-> "error.message",
     keys |-> {"status", "message"}, upload_request_delay |-> ""]

\* the union of the tag lists of the direct calls that returned
RequestedByReturnedCalls ==
    UNION {Range(calls[1][i].arg) :
              i \in {j \in DOMAIN results[1] : results[1][j]}}

(***************************************************************************)
(* C1.  Under any interleaving of concurrent updateConversationTags calls  *)
(* on the same conversation no tag is lost: the stored tag set is the      *)
(* initially stored tags united with the tags of every call that returned. *)
(***************************************************************************)
C1_NoTagLost == Range(tags) = Range(tags0) \cup tagsAdded

C3_MissingIdNoCalls ==
    \A r \in Requests :
        (request[r].id = 0 /\ EventOf(request[r]) \in RegisteredEvents) =>
            /\ calls[r] = <<>>
            /\ pc[r] = "done" =>
                  /\ Len(responses[r]) = 1
                  /\ responses[r][1].status = "error"
                  /\ responses[r][1].code = 400

C3_Witness ==
    \E r \in Requests :
        /\ request[r].id = 0
        /\ EventOf(request[r]) = DraftEvent
        /\ pc[r] = "done"
        /\ responses[r] # <<>>

(***************************************************************************)
(* C4.  An event whose name is none of the three registered names is       *)
(* answered with success and issues no gateway call, whatever the payload. *)
(***************************************************************************)
C4_UnknownEventNoOp ==
    \A r \in Requests :
        (Routed(r) /\ EventOf(request[r]) \notin RegisteredEvents \cup {""}) =>
            /\ calls[r] = <<>>
            /\ pc[r] = "done"
            /\ Len(responses[r]) = 1
            /\ responses[r][1].status = "success"
            /\ responses[r][1].code = 200

C4_Witness ==
    \E r \in Requests :
        /\ EventOf(request[r]) = UnknownEventName
        /\ request[r].id = 42
        /\ request[r].threads # <<>>
        /\ pc[r] = "done"
        /\ responses[r] # <<>>

C7_WelcomeOrder ==
    \A r \in Requests :
        (request[r].variant = VariantFull /\ IsWelcome(r)) =>
            /\ IsPrefix(Kinds(r), WelcomePipeline)
            /\ InFlight(r) \in {0, 1}

C7_Witness ==
    \E r \in Requests :
        /\ request[r].variant = VariantFull
        /\ IsWelcome(r)
        /\ Kinds(r) = WelcomePipeline
        /\ InFlight(r) = 1

(***************************************************************************)
(* C8.  A welcome dispatch of part_002 for a conversation with one         *)
(* customer message in which every call succeeds issues exactly one AI     *)
(* completion, one immediate message, one delayed message, one merge of    *)
(* the tag DOCS_REQUESTED and one timeline entry, and answers success.     *)
(***************************************************************************)
C8_WelcomeEndToEnd ==
    \A r \in Requests :
        (/\ request[r].variant = VariantFull
         /\ IsWelcome(r)
         /\ request[r].id # 0
         /\ Len(SelectSeq(request[r].threads,
                          LAMBDA t : t.type = "customer")) = 1
         /\ pc[r] = "done"
         /\ \A i \in DOMAIN results[r] : results[r][i]) =>
            /\ Kinds(r) = WelcomePipeline
            /\ locals[r].newTags = <<DocsRequested>>
            /\ Range(calls[r][5].arg) = Range(tags0) \cup {DocsRequested}
            /\ DocsRequested \in Range(tags)
            /\ Len(responses[r]) = 1
            /\ responses[r][1].status = "success"
            /\ responses[r][1].code = 200

C8_Witness ==
    \E r \in Requests :
        /\ request[r].variant = VariantFull
        /\ IsWelcome(r)
        /\ request[r].threads =
              <<[type |-> "customer", createdAt |-> 1, body |-> Bodies[1]]>>
        /\ tags0 = <<>>
        /\ pc[r] = "done"
        /\ Len(results[r]) = 6
        /\ \A i \in DOMAIN results[r] : results[r][i]

(***************************************************************************)
(* C9.  A welcome dispatch for a conversation with an id and an empty      *)
(* thread list does not fail on that branch: the AI gateway is called with *)
(* the placeholder message, and when it answers a sendMessage is           *)
(* attempted.                                                              *)
(***************************************************************************)
C9_EmptyThreadsStillWelcomed ==
    \A r \in Requests :
        (/\ Routed(r)
         /\ IsWelcome(r)
         /\ request[r].id # 0
         /\ request[r].threads = <<>>) =>
            /\ calls[r] # <<>>
            /\ calls[r][1] = [kind |-> "generateWelcomeEmail",
                              arg |-> <<PlaceholderMessage>>]
            /\ (results[r] # <<>> /\ results[r][1]) =>
                  (Len(calls[r]) >= 2
                   /\ calls[r][2].kind = "sendEmailToCustomer")

(***************************************************************************)
(* C10.  An intent-detect dispatch for a conversation without a customer   *)
(* message fails fast: an error response, no AI call, no helpdesk write.   *)
(***************************************************************************)
C10_NoCustomerMessageFailsFast ==
    \A r \in Requests :
        (/\ Routed(r)
         /\ IsIntent(r)
         /\ \A i \in DOMAIN request[r].threads :
               request[r].threads[i].type # "customer") =>
            /\ calls[r] = <<>>
            /\ pc[r] = "done"
            /\ Len(responses[r]) = 1
            /\ responses[r][1].status = "error"

(***************************************************************************)
(* C11: every request to /webhook/event is answered with exactly one       *)
(* structured JSON response, never none and never two, whatever gateway    *)
(* calls fail: while the request is being handled nothing has been         *)
(* written, and once its handler has finished exactly one response with a  *)
(* status has been written.                                                *)
(***************************************************************************)
C11_ExactlyOneResponse ==
    \A r \in Requests :
        /\ Len(responses[r]) <= 1
        /\ pc[r] = "done" <=> Len(responses[r]) = 1
        /\ \A i \in DOMAIN responses[r] :
            /\ responses[r][i].status \in {"success", "error"}
            /\ "status" \in responses[r][i].keys

C11_Witness ==
    \E r \in Requests :
        /\ pc[r] = "done"
        /\ Len(calls[r]) >= 2
        /\ \E i \in DOMAIN results[r] : ~results[r][i]
        /\ Len(responses[r]) = 1
        /\ responses[r][1].code = 500

(***************************************************************************)
(* C12: a dispatch is never suspended for ever by a gateway that does not  *)
(* answer: every call is bounded by a time limit, so whenever a request is *)
(* being handled its handler can take its next step, the awaited call      *)
(* ending at the latest with the time-limit error.                         *)
(***************************************************************************)
Resume(r) ==
    \/ WebhookEvent(r)
    \/ GenerateWelcomeEmailReturns(r)
    \/ SendEmailToCustomerReturns(r)
    \/ SendDelayedEmailToCustomerReturns(r)
    \/ UpdateConversationTagsGetReturns(r)
    \/ UpdateConversationTagsPutReturns(r)
    \/ AddLineItemReturns(r)
    \/ AddNoteReturns(r)
    \/ DetectIntentWithOpenAIReturns(r)
    \/ QueryOnyxAIReturns(r)
    \/ GenerateDraftReplyReturns(r)
    \/ CreateDraftReplyReturns(r)

C12_NeverSuspendedForever ==
    \A r \in Requests :
        pc[r] \notin {"idle", "done"} => ENABLED Resume(r)

(***************************************************************************)
(* C13: a handler answers success only if every action it attempted        *)
(* succeeded: when an AI-completion call or a helpdesk call of the handler *)
(* has failed, the response is not a success response.                     *)
(***************************************************************************)
C13_SuccessOnlyIfAllSucceeded ==
    \A r \in Requests :
        (/\ pc[r] = "done"
         /\ \E i \in DOMAIN results[r] :
               /\ ~results[r][i]
               /\ GatewayOf(calls[r][i].kind) \in {"openai", "freescout"}) =>
            /\ responses[r][1].status # "success"
            /\ responses[r][1].code = 500

C13_Witness ==
    \E r \in Requests :
        /\ pc[r] = "done"
        /\ Len(calls[r]) >= 3
        /\ Awaited(r).kind \in {"addLineItem", "createDraftReply"}
        /\ ~results[r][Len(results[r])]
        /\ responses[r][1].status = "error"

(***************************************************************************)
(* C14: no failure of a gateway call is swallowed: when a helpdesk, an     *)
(* AI-completion or a retrieval call of a dispatch has failed, the outcome *)
(* of the dispatch shows it (the response is not the success response).    *)
(***************************************************************************)
C14_NoFailureSwallowed ==
    \A r \in Requests :
        (/\ pc[r] = "done"
         /\ \E i \in DOMAIN results[r] : ~results[r][i]) =>
            responses[r][1].status = "error"

(***************************************************************************)
(* C15: a failed retrieval query never aborts the draft handler: the       *)
(* handler goes on without additional context, still sends the completion  *)
(* request and, when that one succeeds, still creates the draft; the       *)
(* failed query alone does not turn the response into an error.            *)
(***************************************************************************)
C15_RetrievalFailureDegrades ==
    \A r \in Requests :
        (/\ locals[r].handler = "draft"
         /\ Len(results[r]) >= 1
         /\ calls[r][1].kind = "queryOnyxAI"
         /\ ~results[r][1]) =>
            /\ Len(calls[r]) >= 2
            /\ calls[r][2].kind = "generateDraftReply"
            /\ calls[r][2].arg[2] = NoContext
            /\ (Len(results[r]) >= 2 /\ results[r][2]) =>
                   /\ Len(calls[r]) = 3
                   /\ calls[r][3].kind = "createDraftReply"
            /\ (Len(results[r]) = 3 /\ results[r][2] /\ results[r][3]) =>
                   /\ pc[r] = "done"
                   /\ responses[r][1].status = "success"

C15_Witness ==
    \E r \in Requests :
        /\ locals[r].handler = "draft"
        /\ Len(results[r]) = 3
        /\ calls[r][1].kind = "queryOnyxAI"
        /\ ~results[r][1]
        /\ calls[r][3].kind = "createDraftReply"
        /\ results[r][3]
        /\ responses[r][1].status = "success"

(***************************************************************************)
(* C16: in a draft dispatch the retrieval gateway is queried exactly when  *)
(* the persona selected for the assigned agent id is the Intake persona    *)
(* and a retrieval key is configured: for every id for which the Intake    *)
(* prompt is used, with a key set, retrieval is queried, and for every     *)
(* other id, or without a key, it is not.                                  *)
(***************************************************************************)
C16_RetrievalIffIntakePersona ==
    \A r \in Requests :
        locals[r].handler = "draft" =>
            ((\E i \in DOMAIN calls[r] : calls[r][i].kind = "queryOnyxAI")
             <=> (/\ AgentName(request[r].user_id) = "Intake Agent"
                  /\ config.onyxAiApiKey))

(***************************************************************************)
(* C17: a draft dispatch never sends anything to the customer: its only    *)
(* helpdesk write is one thread creation with state 'draft', authored by   *)
(* the assigned agent (by the system user when no agent is assigned), and  *)
(* it is issued only after the AI generation has succeeded.                *)
(***************************************************************************)
C17_DraftOnly ==
    \A r \in Requests :
        locals[r].handler = "draft" =>
            LET writes == {i \in DOMAIN calls[r] :
                             GatewayOf(calls[r][i].kind) = "freescout"}
            IN  /\ Cardinality(writes) <= 1
                /\ \A i \in writes :
                    /\ calls[r][i].kind = "createDraftReply"
                    /\ calls[r][i].state = "draft"
                    /\ calls[r][i].arg = <<DraftText>>
                    /\ Truthy(request[r].user_id) =>
                           calls[r][i].user = request[r].user_id
                    /\ ~Truthy(request[r].user_id) =>
                           calls[r][i].user = Num(SystemUserId)
                    /\ i > 1
                    /\ calls[r][i - 1].kind = "generateDraftReply"
                    /\ results[r][i - 1]

C17_Witness ==
    \E r \in Requests :
        /\ locals[r].handler = "draft"
        /\ pc[r] = "done"
        /\ request[r].user_id = Num(QuoteAgentId)
        /\ Len(calls[r]) = 2
        /\ calls[r][2].kind = "createDraftReply"
        /\ calls[r][2].user = Num(QuoteAgentId)
        /\ results[r][2]

(***************************************************************************)
(* C18: the initial message given to the welcome generation is the body of *)
(* the chronologically first thread entry authored by the customer; an     *)
(* entry authored by an agent is never selected, even when it is older.    *)
(***************************************************************************)
C18_FirstCustomerMessage ==
    \A r \in Requests :
        (locals[r].handler = "welcome" /\ Len(calls[r]) >= 1) =>
            LET threads == request[r].threads
                selected == calls[r][1].arg[1]
            IN  /\ \A i \in DOMAIN threads :
                       threads[i].body = selected =>
                           threads[i].type = "customer"
                /\ (\E j \in DOMAIN threads : threads[j].type = "customer")
                    => \E i \in DOMAIN threads :
                         /\ threads[i].type = "customer"
                         /\ threads[i].body = selected
                         /\ \A j \in DOMAIN threads :
                               threads[j].type = "customer" =>
                                 threads[i].createdAt <= threads[j].createdAt

(***************************************************************************)
(* C19: the text classified by intent detection is the body of the         *)
(* chronologically latest thread entry authored by the customer; an entry  *)
(* authored by an agent is never selected, even when it is newer.          *)
(***************************************************************************)
C19_LatestCustomerMessage ==
    \A r \in Requests :
        (locals[r].handler = "intent" /\ Len(calls[r]) >= 1) =>
            LET threads == request[r].threads
                selected == calls[r][1].arg[1]
            IN  /\ \A i \in DOMAIN threads :
                       threads[i].body = selected =>
                           threads[i].type = "customer"
                /\ \E i \in DOMAIN threads :
                       /\ threads[i].type = "customer"
                       /\ threads[i].body = selected
                       /\ \A j \in DOMAIN threads :
                             threads[j].type = "customer" =>
                               threads[i].createdAt >= threads[j].createdAt

(***************************************************************************)
(* C20: the transcript built by the draft handler lists the thread entries *)
(* (those of type customer, message or reply) in ascending creation time;  *)
(* entries with equal creation time keep their payload order; every listed *)
(* entry appears once and nothing else is reordered.                       *)
(***************************************************************************)
C20_TranscriptStableAscending ==
    \A r \in Requests :
        locals[r].handler = "draft" =>
            LET threads == request[r].threads
                history == locals[r].conversationHistory
                listed == {i \in DOMAIN threads :
                             threads[i].type \in {"customer", "message",
                                                  "reply"}}
                at(k) == CHOOSE i \in DOMAIN threads :
                             threads[i].body = history[k].body
            IN  /\ Len(history) = Cardinality(listed)
                /\ \A k \in DOMAIN history :
                    /\ \E i \in listed : threads[i].body = history[k].body
                    /\ history[k].sender = "Customer"
                           <=> threads[at(k)].type = "customer"
                /\ \A k, l \in DOMAIN history :
                       k < l =>
                         \/ threads[at(k)].createdAt < threads[at(l)].createdAt
                         \/ /\ threads[at(k)].createdAt
                                  = threads[at(l)].createdAt
                            /\ at(k) < at(l)

C20_Witness ==
    \E r \in Requests :
        /\ locals[r].handler = "draft"
        /\ Len(request[r].threads) = 2
        /\ request[r].threads[1].type = "reply"
        /\ request[r].threads[2].type = "customer"
        /\ request[r].threads[1].createdAt = request[r].threads[2].createdAt
        /\ locals[r].conversationHistory =
               << [sender |-> "Agent", body |-> Bodies[1]],
                  [sender |-> "Customer", body |-> Bodies[2]] >>

C22_IntentTagVerbatim ==
    \A r \in Requests :
        (/\ locals[r].handler = "intent"
         /\ Len(results[r]) >= 1
         /\ results[r][1]) =>
            LET content == locals[r].content
                timeline == {i \in DOMAIN calls[r] :
                               calls[r][i].kind \in {"addLineItem", "addNote"}}
            IN  /\ \E i \in DOMAIN content :
                    /\ content[i] \notin {" ", "\n"}
                    /\ \A j \in DOMAIN content \ {i} :
                           content[j] \in {" ", "\n"}
                    /\ locals[r].newTags = <<content[i]>>
                    /\ Len(calls[r]) >= 3 =>
                           /\ calls[r][3].kind = "tags.put"
                           /\ Range(calls[r][3].arg)
                                = Range(tags0) \cup {content[i]}
                    /\ (Len(results[r]) >= 3 /\ results[r][3]) =>
                           content[i] \in Range(tags)
                /\ calls[r][2].kind = "tags.get"
                /\ \A i \in timeline :
                    /\ i = 4
                    /\ results[r][2] /\ results[r][3]

C22_Witness ==
    \E r \in Requests :
        /\ locals[r].handler = "intent"
        /\ locals[r].content = <<" ", "Unlisted_Label">>
        /\ "Unlisted_Label" \notin IntentLabels
        /\ "Unlisted_Label" \in Range(tags)
        /\ Len(calls[r]) = 4
        /\ pc[r] = "done"
        /\ responses[r][1].status = "success"

(***************************************************************************)
(* C23: an event posted in the documented payload format (event name in    *)
(* the body field `event`, conversation id under `conversation.id`) is     *)
(* routed to its handler and processed for that conversation: it is not    *)
(* rejected as lacking a conversation id, and the documented welcome test  *)
(* request reaches the welcome generation.                                 *)
(***************************************************************************)
C23_DocumentedFormatProcessed ==
    \A r \in Requests :
        (/\ request[r].header = ""
         /\ request[r].event \in RegisteredEvents
         /\ request[r].conversation.id # 0
         /\ Routed(r)) =>
            /\ \A i \in DOMAIN responses[r] :
                   responses[r][i].message # "conversation_id is required"
            /\ (request[r].event = WelcomeEvent
                 /\ request[r].variant = VariantFull) =>
                   /\ Len(calls[r]) >= 1
                   /\ calls[r][1].kind = "generateWelcomeEmail"

(***************************************************************************)
(* C24: extractWebhookEvents groups the webhook actions of the workflow    *)
(* list by target URL and deduplicates the event names: one configuration  *)
(* per URL, whose events hold every distinct webhook action value exactly  *)
(* once, in the order of first occurrence; the empty list when no workflow *)
(* has a webhook action.                                                   *)
(***************************************************************************)
C24_ExtractWebhookEvents ==
    (script.program = "deploy" /\ script.pc # "start"
     /\ script.configExists /\ script.token) =>
        LET workflows == script.workflows
            webhookEvents == script.webhookEvents
            places(e) ==
                {100 * t[1] + 10 * t[2] + t[3] :
                    t \in {u \in (DOMAIN workflows) \X (1..2) \X (1..2) :
                             /\ u[2] \in DOMAIN workflows[u[1]].actions
                             /\ u[3] \in
                                  DOMAIN workflows[u[1]].actions[u[2]]
                             /\ workflows[u[1]].actions[u[2]][u[3]]
                                  = [type |-> "webhook", value |-> e]}}
            first(e) == CHOOSE p \in places(e) : \A q \in places(e) : p <= q
            values == {e \in RegisteredEvents : places(e) # {}}
        IN  IF values = {} THEN webhookEvents = <<>>
            ELSE /\ Len(webhookEvents) = 1
                 /\ webhookEvents[1].url = WebhookUrl
                 /\ Range(webhookEvents[1].events) = values
                 /\ Len(webhookEvents[1].events) = Cardinality(values)
                 /\ \A i, j \in DOMAIN webhookEvents[1].events :
                        i < j => first(webhookEvents[1].events[i])
                                   < first(webhookEvents[1].events[j])

C24_Witness ==
    /\ script.program = "deploy"
    /\ script.pc = "registerWebhook"
    /\ Len(script.workflows) = 2
    /\ script.workflows[1].actions =
           << <<AddTag, Webhook(IntentEvent)>>, <<Webhook(WelcomeEvent)>> >>
    /\ script.workflows[2].actions =
           << <<Webhook(IntentEvent), Webhook(WelcomeEvent)>> >>
    /\ script.webhookEvents[1].events = <<IntentEvent, WelcomeEvent>>

(***************************************************************************)
(* C29: the deploy script attempts every workflow of the configuration     *)
(* exactly once, in configuration order, whatever happened to the webhook  *)
(* registration and to earlier workflows (success + failed = number of     *)
(* workflows); an 'already exists' answer to a registration is not counted *)
(* as a failure; and the script ends with a failure exit status exactly    *)
(* when at least one workflow creation failed.                             *)
(***************************************************************************)
C29_DeployAttemptsAll ==
    (script.program = "deploy" /\ script.pc = "exited") =>
        LET creations == SelectSeq(script.calls,
                             LAMBDA c : c.path = "/api/mailbox/workflows")
        IN  /\ creations =
                  [i \in DOMAIN script.workflows |->
                      [method |-> "POST", path |-> "/api/mailbox/workflows",
                       body |-> script.workflows[i].name]]
            /\ Len(script.results.success) + Len(script.results.failed)
                  = Len(script.workflows)
            /\ Len(script.webhookResults.failed)
                  = Len(SelectSeq(script.answers,
                                  LAMBDA a : a = "error"))
                    - Len(script.results.failed)
            /\ script.exit = 1 <=> Len(script.results.failed) > 0

\* the same once the configuration file was read and the API token is set;
\* without them the script ends with status 1 before any request
C29_DeployAttemptsAllOnceStarted ==
    (script.program = "deploy" /\ script.pc = "exited") =>
        IF script.configExists /\ script.token
        THEN LET creations == SelectSeq(script.calls,
                                 LAMBDA c : c.path = "/api/mailbox/workflows")
                 registrations == Len(script.calls) - Len(creations)
             IN  /\ creations =
                       [i \in DOMAIN script.workflows |->
                           [method |-> "POST",
                            path |-> "/api/mailbox/workflows",
                            body |-> script.workflows[i].name]]
                 /\ Len(script.results.success)
                       + Len(script.results.failed) = Len(script.workflows)
                 /\ \A i \in DOMAIN script.answers :
                        i > registrations =>
                          (script.answers[i] = "error"
                             <=> script.workflows[i - registrations].name
                                   \in Range(script.results.failed))
                 /\ Len(script.webhookResults.failed)
                       = Cardinality({i \in 1..registrations :
                                        script.answers[i] = "error"})
                 /\ Len(script.webhookResults.alreadyExists)
                       = Cardinality({i \in 1..registrations :
                                        script.answers[i] = "already_exists"})
                 /\ script.exit = 1 <=>
                       \E i \in DOMAIN script.answers :
                          i > registrations /\ script.answers[i] = "error"
                 /\ script.exit \in {0, 1}
        ELSE script.calls = <<>> /\ script.exit = 1

C29_Witness ==
    /\ script.program = "deploy"
    /\ script.pc = "exited"
    /\ Len(script.workflows) = 2
    /\ script.answers = <<"error", "error", "created">>
    /\ script.results.failed = <<WorkflowNames[1]>>
    /\ script.results.success = <<WorkflowNames[2]>>
    /\ script.exit = 1

(***************************************************************************)
(* C25: the update script only updates workflows in place under their      *)
(* existing ids: for every workflow of the config it issues at most one    *)
(* PUT, always to the id of an existing workflow of the same name, it      *)
(* never creates a workflow, and when it ends every config workflow is in  *)
(* exactly one of updated, notFound and failed (updated + notFound +       *)
(* failed = number of config workflows).                                   *)
(***************************************************************************)
C25_UpdatesInPlace ==
    script.program = "update" =>
        LET puts == SelectSeq(script.calls, LAMBDA c : c.method = "PUT")
            classified == Len(script.results.updated)
                            + Len(script.results.notFound)
                            + Len(script.results.failed)
        IN  /\ \A k \in DOMAIN script.calls :
                   script.calls[k].method \in {"GET", "PUT"}
            /\ Len(puts) <= Len(script.workflows)
            /\ \A k \in DOMAIN puts :
                   \E e \in Range(script.existing) :
                       e.id = puts[k].id /\ e.name = puts[k].body
            /\ script.pc = "exited" => classified = Len(script.workflows)

\* the same for a run that read its configuration file, has its API token
\* and fetched the existing workflows; a run that did not ends with status
\* 1 without a PUT and without classifying any workflow
C25_UpdatesInPlaceOnceFetched ==
    script.program = "update" =>
        LET puts == SelectSeq(script.calls, LAMBDA c : c.method = "PUT")
            classified == Len(script.results.updated)
                            + Len(script.results.notFound)
                            + Len(script.results.failed)
            processed == classified
                           + (IF script.pc = "updateWorkflow" THEN 1 ELSE 0)
            found == SelectSeq(SubSeq(script.workflows, 1, processed),
                         LAMBDA w : ExistingId(script.existing, w.name) # 0)
            fetched == /\ script.configExists /\ script.token
                       /\ Len(script.answers) > 0
                       /\ script.answers[1] = "ok"
        IN  /\ \A k \in DOMAIN script.calls :
                   script.calls[k].method = IF k = 1 THEN "GET" ELSE "PUT"
            /\ Len(puts) = Len(found)
            /\ \A k \in DOMAIN puts :
                   /\ puts[k].body = found[k].name
                   /\ \E e \in Range(script.existing) :
                         e.id = puts[k].id /\ e.name = found[k].name
            /\ script.results.notFound =
                   [k \in 1..Len(script.results.notFound) |->
                       SelectSeq(SubSeq(script.workflows, 1, classified),
                           LAMBDA w : ExistingId(script.existing, w.name) = 0
                       )[k].name]
            /\ Len(script.results.updated) =
                   Cardinality({k \in DOMAIN script.answers :
                                  k > 1 /\ script.answers[k] = "ok"})
            /\ Len(script.results.failed) =
                   Cardinality({k \in DOMAIN script.answers :
                                  k > 1 /\ script.answers[k] = "error"})
            /\ script.pc = "exited" =>
                   IF fetched
                   THEN classified = Len(script.workflows)
                   ELSE puts = <<>> /\ classified = 0 /\ script.exit = 1

\* a run ends with one workflow not found and one whose PUT, sent to the
\* later of two existing workflows of its name, failed
C25_Witness ==
    /\ script.program = "update" /\ script.pc = "exited"
    /\ script.results.updated = <<>>
    /\ script.results.notFound = <<WorkflowNames[1]>>
    /\ script.results.failed = <<WorkflowNames[2]>>
    /\ Len(script.calls) = 2
    /\ script.calls[2].method = "PUT" /\ script.calls[2].id = 62
    /\ Len(script.existing) = 2
    /\ script.exit = 1


(***************************************************************************)
(* C26: the welcome handler schedules the upload-request (second) message  *)
(* 5 minutes after the dispatch time, and this is the delay it writes into *)
(* the timeline entry and reports to the caller as upload_request_delay.   *)
(***************************************************************************)
C26_UploadRequestAfterFiveMinutes ==
    \A r \in Requests :
        \A k \in DOMAIN calls[r] :
            calls[r][k].kind = "sendDelayedEmailToCustomer" =>
                /\ calls[r][k].scheduledAt = 5 * 60 * 1000
                /\ \A j \in DOMAIN calls[r] :
                       (calls[r][j].kind = "addLineItem"
                          /\ locals[r].handler = "welcome")
                         => calls[r][j].arg[2] = "5 minute delay"
                /\ \A j \in DOMAIN responses[r] :
                       responses[r][j].status = "success"
                         => responses[r][j].upload_request_delay = "5 minutes"


(***************************************************************************)
(* C27: /webhook/signed-and-paid with no conversation_id returns an error  *)
(* and issues no gateway call; with a conversation_id it merges the        *)
(* SIGNED_AND_PAID tag first and adds the payment timeline entry only      *)
(* after the tag write succeeded, and if the tag write fails it returns an *)
(* error without adding the entry.                                         *)
(***************************************************************************)
C27_TagBeforePaymentEntry ==
    \A r \in Requests :
        pc[r] # "idle" =>
            LET entry == IF request[r].variant = VariantFull
                         THEN "addLineItem" ELSE "addNote"
                kinds == [k \in DOMAIN calls[r] |-> calls[r][k].kind]
            IN  IF request[r].id = 0
                THEN /\ calls[r] = <<>>
                     /\ pc[r] = "done"
                     /\ Len(responses[r]) = 1
                     /\ responses[r][1].code = 400
                     /\ responses[r][1].status = "error"
                ELSE /\ IsPrefix(kinds, <<"tags.get", "tags.put", entry>>)
                     /\ Len(kinds) >= 2 =>
                           /\ results[r][1]
                           /\ calls[r][2].arg =
                                 MergeTags(locals[r].existingTags,
                                           <<SignedAndPaidTag>>)
                     /\ Len(kinds) = 3 =>
                           /\ results[r][2]
                           /\ SignedAndPaidTag \in tagsAdded
                     /\ (Len(results[r]) = 2 /\ ~results[r][2]) =>
                           /\ Len(kinds) = 2
                           /\ pc[r] = "done"
                           /\ responses[r] = <<ErrorResponse(500)>>
                     /\ (pc[r] = "done" /\ responses[r][1].status = "success")
                           => results[r] = <<TRUE, TRUE, TRUE>>

\* one payment was confirmed, its entry added after its tag write; the
\* tag write of another failed and it was answered an error with no entry
C27_Witness ==
    /\ pc[1] = "done" /\ pc[2] = "done"
    /\ request[1].id # 0 /\ request[2].id # 0
    /\ results[1] = <<TRUE, TRUE, TRUE>>
    /\ Len(calls[1]) = 3
    /\ responses[1][1].status = "success"
    /\ results[2] = <<TRUE, FALSE>>
    /\ Len(calls[2]) = 2
    /\ responses[2] = <<ErrorResponse(500)>>


(***************************************************************************)
(* C28: the event router takes the event name from the x-freescout-event   *)
(* header and uses the body field `event` only when the header is absent;  *)
(* when neither is present it returns an error and invokes no handler and  *)
(* no gateway call; and for each of the three registered names it invokes  *)
(* the one matching handler, once.                                         *)
(***************************************************************************)
C28_RouterTakesHeaderFirst ==
    \A r \in Requests :
        pc[r] \notin {"idle", "webhook.event"} =>
            LET event == IF request[r].header # "" THEN request[r].header
                         ELSE request[r].event
                name == CASE event = WelcomeEvent -> "welcome"
                          [] event = IntentEvent -> "intent"
                          [] event = DraftEvent -> "draft"
                          [] OTHER -> "none"
                firstSteps ==
                    CASE name = "welcome" -> {"generateWelcomeEmail"}
                      [] name = "intent" -> {"detectIntentWithOpenAI"}
                      [] name = "draft" -> {"queryOnyxAI", "generateDraftReply"}
                      [] OTHER -> {}
                rejected == /\ pc[r] = "done"
                            /\ calls[r] = <<>>
                            /\ Len(responses[r]) = 1
                            /\ responses[r][1].code = 400
                            /\ responses[r][1].status = "error"
            IN  /\ event = "" => rejected /\ locals[r].handler = "none"
                /\ locals[r].handler \in {"none", name}
                /\ (event \in RegisteredEvents /\ locals[r].handler = "none")
                      => rejected
                /\ locals[r].handler # "none" =>
                      /\ calls[r] # <<>>
                      /\ calls[r][1].kind \in firstSteps
                      /\ Cardinality({k \in DOMAIN calls[r] :
                             calls[r][k].kind \in
                               {"generateWelcomeEmail",
                                "detectIntentWithOpenAI",
                                "generateDraftReply"}}) <= 1
                /\ Len(responses[r]) <= 1
                /\ pc[r] = "done" => Len(responses[r]) = 1

\* the header names the welcome event and the body the intent event: the
\* welcome handler ran, to its end
C28_Witness ==
    \E r \in Requests :
        /\ request[r].header = WelcomeEvent
        /\ request[r].event = IntentEvent
        /\ locals[r].handler = "welcome"
        /\ calls[r][1].kind = "generateWelcomeEmail"
        /\ pc[r] = "done"
        /\ responses[r][1].status = "success"


(***************************************************************************)
(* C30: within one dispatch no gateway operation is retried: each AI call  *)
(* and each action primitive issues at most one request attempt (the tag   *)
(* merge: one read and at most one write), and its failure is propagated   *)
(* to the handler, which answers the error, instead of being retried.      *)
(***************************************************************************)
C30_NoRetry ==
    \A r \in Requests :
        LET count(kind) == Cardinality({k \in DOMAIN calls[r] :
                                          calls[r][k].kind = kind})
        IN  /\ \A k \in DOMAIN calls[r] : count(calls[r][k].kind) = 1
            /\ count("tags.put") <= count("tags.get")
            /\ \A i \in DOMAIN results[r] :
                   (~results[r][i]
                      /\ GatewayOf(calls[r][i].kind) \in {"openai", "freescout"})
                     => /\ i = Len(calls[r])
                        /\ pc[r] = "done"
                        /\ responses[r] = <<ErrorResponse(500)>>

\* the write of the tag merge of a welcome dispatch failed: it was the last
\* request of the dispatch, which was answered with the error
C30_Witness ==
    \E r \in Requests :
        /\ pc[r] = "done"
        /\ Kinds(r) = <<"generateWelcomeEmail", "sendEmailToCustomer",
                        "sendDelayedEmailToCustomer", "tags.get", "tags.put">>
        /\ results[r] = <<TRUE, TRUE, TRUE, TRUE, FALSE>>
        /\ responses[r] = <<ErrorResponse(500)>>


====
